---- MODULE Spec2Model ----
(***************************************************************************)
(* Model of the tool layer of the chat agent (src/src/tools.ts).           *)
(*                                                                         *)
(* Strings are sequences of tokens.  A token is either one character of    *)
(* caller-supplied text or one chunk of a string literal of the source.    *)
(* The characters "?" and "&" are always tokens of their own, so that      *)
(* String.includes("?") and the shape of a query path can be computed.     *)
(***************************************************************************)
EXTENDS Integers, Sequences, FiniteSets, TLC

VARIABLES pc, call, getCalls, scheduleCalls, result, promise, getOutcome,
          confirmations, executed, attempts, resolver, dispatched

toolVars == <<pc, call, getCalls, scheduleCalls, result, promise, getOutcome>>
gateVars == <<confirmations, executed, attempts, resolver, dispatched>>
vars == <<pc, call, getCalls, scheduleCalls, result, promise, getOutcome,
          confirmations, executed, attempts, resolver, dispatched>>

-----------------------------------------------------------------------------
(* Bounds of the model *)

\* longest caller-supplied string (name, id list, student id), in characters
MaxLen == 2
\* most tool calls the gate dispatches in one behaviour
MaxDispatch == 3
\* most resolve requests the confirmation channel sends in one behaviour
MaxResolve == 3

-----------------------------------------------------------------------------
(* Values *)

\* an optional argument that was not supplied (JavaScript undefined)
Absent == <<"undefined">>

\* a lone UTF-16 high / low surrogate code unit
HighSurrogate == "uD800"
LowSurrogate == "uDC00"

NameChars == {"a", " ", "?", "&", HighSurrogate, LowSurrogate}
IdChars == {"1", "2", ","}

StringsOver(chars) == UNION {[1..n -> chars] : n \in 0..MaxLen}

Names == StringsOver(NameChars)
IdLists == StringsOver(IdChars)
OptionalIdLists == IdLists \cup {Absent}
StudentIds == StringsOver({"1", "2"})

\* the callers of resolve that may run interleaved
Resolvers == {"r1", "r2"}

\* JavaScript truthiness of an optional string: undefined and "" are falsy
Truthy(s) == s # Absent /\ s # <<>>

\* String.prototype.includes for a one-character needle
Includes(s, ch) == \E i \in DOMAIN s : s[i] = ch

-----------------------------------------------------------------------------
(* The registry and the table of confirmation-gated implementations *)

\* the registry with an inline execute added to getWeatherInformation
tools_weatherExecutes ==
  [ n \in {"getUserPersonalData", "getWeatherInformation", "getLocalTime",
           "scheduleTask", "getClasses", "getSubjects", "getSchools",
           "getStudents", "searchStudent", "getStudent"} |-> [execute |-> TRUE] ]

\* tools: name -> whether the descriptor carries an inline execute function
tools ==
  [ getUserPersonalData   |-> [execute |-> TRUE],
    getWeatherInformation |-> [execute |-> FALSE],
    getLocalTime          |-> [execute |-> TRUE],
    scheduleTask          |-> [execute |-> TRUE],
    getClasses            |-> [execute |-> TRUE],
    getSubjects           |-> [execute |-> TRUE],
    getSchools            |-> [execute |-> TRUE],
    getStudents           |-> [execute |-> TRUE],
    searchStudent         |-> [execute |-> TRUE],
    getStudent            |-> [execute |-> TRUE] ]

\* executions.getWeatherInformation({city})
getWeatherInformationExecution(args) ==
  <<"The weather in ">> \o args.city \o <<" is sunny">>

\* the table with the entry of getWeatherInformation left out
executions_empty == [ n \in {} |-> "" ]

\* executions: name -> the implementation run after approval
executions ==
  [ getWeatherInformation |-> "getWeatherInformationExecution" ]

DomainTools == {"getUserPersonalData", "getSchools", "getClasses", "getSubjects",
                "getStudents", "searchStudent", "getStudent"}

-----------------------------------------------------------------------------
(* scheduleTask *)

ScheduleTypes == {"scheduled", "delayed", "cron", "no-schedule"}
TheDate == <<"Date", "2025-01-01T00:00:00Z">>
TheDelay == <<"number", "30">>
TheCron == <<"string", "0 * * * *">>

\* the validated `when` object; the schema leaves every field but type optional
Whens == [type : ScheduleTypes,
          date : {Absent, TheDate},
          delayInSeconds : {Absent, TheDelay},
          cron : {Absent, TheCron}]
Descriptions == {<<"call mum">>, <<"send report">>}

\* agentContext.getStore(): the agent of the current invocation, or undefined
Agents == {"agent", "undefined"}

\* what agent.schedule does: returns a promise that fulfils, throws at the
\* call, or returns a promise that rejects later
ScheduleOutcomes == {"ok", "throws", "rejects"}
ScheduleError == "Error: schedule failed"

\* Date.prototype.toString of the date of the model (UTC host)
DateToString(iso) ==
  IF iso = "2025-01-01T00:00:00Z"
  THEN "Wed Jan 01 2025 00:00:00 GMT+0000 (Coordinated Universal Time)"
  ELSE "Invalid Date"

\* the conversion a template literal applies to ${value}
TemplateString(v) ==
  IF v = Absent THEN <<"undefined">>
  ELSE IF v[1] = "Date" THEN <<DateToString(v[2])>>
  ELSE <<v[2]>>

Recognized(when) == when.type \in {"scheduled", "delayed", "cron"}

\* the trigger value taken from the wrong field
TriggerInput_swapped(when) ==
  IF when.type = "scheduled" THEN when.cron
  ELSE IF when.type = "delayed" THEN when.delayInSeconds
  ELSE when.date

\* const input = when.type === "scheduled" ? when.date : ...
TriggerInput(when) ==
  IF when.type = "scheduled" THEN when.date
  ELSE IF when.type = "delayed" THEN when.delayInSeconds
  ELSE when.cron

ScheduledMessage(when, input) ==
  <<"Task scheduled for type \"", when.type, "\" : ">> \o TemplateString(input)

ScheduleErrorMessage(error) == <<"Error scheduling task: ", error>>

\* whether execute reaches the agent.schedule call
ReachesSchedule(when, agent) == agent # "undefined" /\ Recognized(when)

\* no-schedule promoted to a raised error
ScheduleTaskEnd_noScheduleRaises(when, agent, outcome) ==
  IF agent = "undefined" THEN [pc |-> "raised", value |-> <<"Error: No agent found">>]
  ELSE IF ~Recognized(when)
       THEN [pc |-> "raised", value |-> <<"Error: not a valid schedule input">>]
  ELSE IF outcome = "throws"
       THEN [pc |-> "returned", value |-> ScheduleErrorMessage(ScheduleError)]
  ELSE [pc |-> "returned", value |-> ScheduledMessage(when, TriggerInput(when))]

\* the agent looked up only after the no-schedule return
ScheduleTaskEnd_agentCheckedLate(when, agent, outcome) ==
  IF when.type = "no-schedule"
  THEN [pc |-> "returned", value |-> <<"Not a valid schedule input">>]
  ELSE IF agent = "undefined"
       THEN [pc |-> "raised", value |-> <<"Error: No agent found">>]
  ELSE IF ~Recognized(when)
       THEN [pc |-> "raised", value |-> <<"Error: not a valid schedule input">>]
  ELSE IF outcome = "throws"
       THEN [pc |-> "returned", value |-> ScheduleErrorMessage(ScheduleError)]
  ELSE [pc |-> "returned", value |-> ScheduledMessage(when, TriggerInput(when))]

\* how the invocation ends: a returned value or a raised error
ScheduleTaskEnd(when, agent, outcome) ==
  IF agent = "undefined" THEN [pc |-> "raised", value |-> <<"Error: No agent found">>]
  ELSE IF when.type = "no-schedule"
       THEN [pc |-> "returned", value |-> <<"Not a valid schedule input">>]
  ELSE IF ~Recognized(when)
       THEN [pc |-> "raised", value |-> <<"Error: not a valid schedule input">>]
  ELSE IF outcome = "throws"
       THEN [pc |-> "returned", value |-> ScheduleErrorMessage(ScheduleError)]
  ELSE [pc |-> "returned", value |-> ScheduledMessage(when, TriggerInput(when))]

\* the promise agent.schedule returned, which nothing awaits or handles
SchedulePromise(when, agent, outcome) ==
  IF ~ReachesSchedule(when, agent) \/ outcome = "throws" THEN "none"
  ELSE IF outcome = "ok" THEN "fulfilled"
  ELSE "rejected"

\* no tool invocation is in progress
Ready == pc = "idle"

scheduleTask(when, description, agent, outcome) ==
  /\ Ready
  /\ call' = [tool |-> "scheduleTask", when |-> when, description |-> description,
              agent |-> agent,
              outcome |-> IF ReachesSchedule(when, agent) THEN outcome ELSE "none"]
  /\ scheduleCalls' = IF ReachesSchedule(when, agent)
                      THEN << <<TriggerInput(when), "executeTask", description>> >>
                      ELSE <<>>
  /\ pc' = ScheduleTaskEnd(when, agent, outcome).pc
  /\ result' = ScheduleTaskEnd(when, agent, outcome).value
  /\ promise' = SchedulePromise(when, agent, outcome)
  /\ getCalls' = <<>>
  /\ getOutcome' = "none"
  /\ UNCHANGED gateVars

\* the rejection of the promise nothing handles reaches the runtime
UnhandledRejection ==
  /\ promise = "rejected"
  /\ promise' = "unhandled"
  /\ UNCHANGED <<pc, call, getCalls, scheduleCalls, result, getOutcome>>
  /\ UNCHANGED gateVars

-----------------------------------------------------------------------------
(* getLocalTime *)

Locations == {<<"a">>}

getLocalTime(location) ==
  /\ Ready
  /\ call' = [tool |-> "getLocalTime", location |-> location]
  /\ pc' = "returned"
  /\ result' = <<"10am">>
  /\ getCalls' = <<>>
  /\ scheduleCalls' = <<>>
  /\ promise' = "none"
  /\ getOutcome' = "none"
  /\ UNCHANGED gateVars

-----------------------------------------------------------------------------
(* The domain tools *)

RECURSIVE WellFormed(_)
\* whether a UTF-16 string has no lone surrogate
WellFormed(s) ==
  IF s = <<>> THEN TRUE
  ELSE IF Head(s) = HighSurrogate
       THEN Len(s) >= 2 /\ s[2] = LowSurrogate /\ WellFormed(SubSeq(s, 3, Len(s)))
  ELSE IF Head(s) = LowSurrogate THEN FALSE
  ELSE WellFormed(Tail(s))

\* the escape of one character that is not a surrogate
EscapeChar(c) ==
  IF c = " " THEN "%20"
  ELSE IF c = "?" THEN "%3F"
  ELSE IF c = "&" THEN "%26"
  ELSE c

RECURSIVE encodeURIComponent(_)
\* encodeURIComponent of a well-formed string; it throws URIError on the others
encodeURIComponent(s) ==
  IF s = <<>> THEN <<>>
  ELSE IF Head(s) = HighSurrogate
       THEN <<"%F0%90%80%80">> \o encodeURIComponent(SubSeq(s, 3, Len(s)))
  ELSE <<EscapeChar(Head(s))>> \o encodeURIComponent(Tail(s))

\* classIds appended without the url.includes("?") test
GetStudentsUrl_alwaysQuestionMark(schoolIds, classIds) ==
  LET withSchools == IF Truthy(schoolIds)
                     THEN <<"active-students", "?", "schoolIds=">> \o schoolIds
                     ELSE <<"active-students">>
  IN IF Truthy(classIds)
     THEN withSchools \o <<"?", "classIds=">> \o classIds
     ELSE withSchools

\* the path getStudents requests
GetStudentsUrl(schoolIds, classIds) ==
  LET withSchools == IF Truthy(schoolIds)
                     THEN <<"active-students", "?", "schoolIds=">> \o schoolIds
                     ELSE <<"active-students">>
  IN IF Truthy(classIds)
     THEN IF Includes(withSchools, "?")
          THEN withSchools \o <<"&", "classIds=">> \o classIds
          ELSE withSchools \o <<"?", "classIds=">> \o classIds
     ELSE withSchools

\* the path searchStudent requests, for a name encodeURIComponent accepts
SearchStudentUrl(name, schoolIds) ==
  LET base == <<"/students/typeahead", "?", "searchText=">> \o encodeURIComponent(name)
  IN IF Truthy(schoolIds) THEN base \o <<"?", "schoolIds=">> \o schoolIds ELSE base

GetStudentUrl(studentId) == <<"student/">> \o studentId

\* a tool issues bambaiApiClient.get(path, {headers}) and awaits it
StartGet(args, path) ==
  /\ Ready
  /\ call' = args
  /\ pc' = "awaitGet"
  /\ getCalls' = <<path>>
  /\ result' = <<>>
  /\ scheduleCalls' = <<>>
  /\ promise' = "none"
  /\ getOutcome' = "pending"
  /\ UNCHANGED gateVars

\* a tool raises before it issues any request
Raise(args, error) ==
  /\ Ready
  /\ call' = args
  /\ pc' = "raised"
  /\ getCalls' = <<>>
  /\ result' = <<error>>
  /\ scheduleCalls' = <<>>
  /\ promise' = "none"
  /\ getOutcome' = "none"
  /\ UNCHANGED gateVars

getUserPersonalData == StartGet([tool |-> "getUserPersonalData"], <<"me">>)

getSchools ==
  StartGet([tool |-> "getSchools"], <<"schools", "?", "page=0", "&", "perPage=30">>)

getClasses == StartGet([tool |-> "getClasses"], <<"classes">>)

getSubjects == StartGet([tool |-> "getSubjects"], <<"subjects">>)

getStudents(schoolIds, classIds) ==
  StartGet([tool |-> "getStudents", schoolIds |-> schoolIds, classIds |-> classIds],
           GetStudentsUrl(schoolIds, classIds))

searchStudent(name, schoolIds) ==
  LET args == [tool |-> "searchStudent", name |-> name, schoolIds |-> schoolIds]
  IN /\ Ready
     /\ IF WellFormed(name)
        THEN StartGet(args, SearchStudentUrl(name, schoolIds))
        ELSE Raise(args, "URIError: URI malformed")

getStudent(studentId) ==
  StartGet([tool |-> "getStudent", studentId |-> studentId], GetStudentUrl(studentId))

\* the bodies the service answers with; the last one is a value JSON.stringify
\* rejects (it throws TypeError)
Unserializable == "unserializable"
ResponseData == {"{}", "[{\"_id\":\"1\"}]", Unserializable}

JSONStringify(data) == <<data>>

\* the awaited request fulfils: return JSON.stringify(res.data), inside the try
GetFulfils(data) ==
  /\ pc = "awaitGet"
  /\ pc' = "returned"
  /\ getOutcome' = "fulfilled"
  /\ result' = IF data = Unserializable THEN <<"error">> ELSE JSONStringify(data)
  /\ UNCHANGED <<call, getCalls, scheduleCalls, promise>>
  /\ UNCHANGED gateVars

\* the awaited request rejects: the catch returns "error"
GetRejects ==
  /\ pc = "awaitGet"
  /\ pc' = "returned"
  /\ getOutcome' = "rejected"
  /\ result' = <<"error">>
  /\ UNCHANGED <<call, getCalls, scheduleCalls, promise>>
  /\ UNCHANGED gateVars

\* the caller has taken the outcome of the invocation; the tools keep no
\* state between invocations, and the variables describe the current one
NextCall ==
  /\ pc \in {"returned", "raised"}
  /\ pc' = "idle"
  /\ call' = [tool |-> "none"]
  /\ getCalls' = <<>>
  /\ scheduleCalls' = <<>>
  /\ result' = <<>>
  /\ promise' = "none"
  /\ getOutcome' = "none"
  /\ UNCHANGED gateVars

-----------------------------------------------------------------------------
(* The tools, invoked one at a time *)

Init ==
  /\ pc = "idle"
  /\ call = [tool |-> "none"]
  /\ getCalls = <<>>
  /\ scheduleCalls = <<>>
  /\ result = <<>>
  /\ promise = "none"
  /\ getOutcome = "none"
  /\ confirmations = <<>>
  /\ executed = <<>>
  /\ attempts = <<>>
  /\ resolver = [r \in Resolvers |-> [pc |-> "idle", id |-> 0]]
  /\ dispatched = <<>>

Next ==
  \/ \E when \in Whens, description \in Descriptions, agent \in Agents,
        outcome \in ScheduleOutcomes : scheduleTask(when, description, agent, outcome)
  \/ UnhandledRejection
  \/ \E location \in Locations : getLocalTime(location)
  \/ getUserPersonalData
  \/ getSchools
  \/ getClasses
  \/ getSubjects
  \/ \E schoolIds \in OptionalIdLists, classIds \in OptionalIdLists :
        getStudents(schoolIds, classIds)
  \/ \E name \in Names, schoolIds \in OptionalIdLists : searchStudent(name, schoolIds)
  \/ \E studentId \in StudentIds : getStudent(studentId)
  \/ \E data \in ResponseData : GetFulfils(data)
  \/ GetRejects
  \/ NextCall

Spec == Init /\ [][Next]_vars

-----------------------------------------------------------------------------
(* The confirmation gate: dispatch(toolName, args) and resolve(pendingId,   *)
(* decision).  A pending confirmation is claimed by the resolve that finds  *)
(* it unresolved, in one step; the approved implementation runs after that. *)

Decisions == {"Approve", "Deny"}
Cities == {<<"Oslo">>}

\* the calls the model's turn may hold, already validated
ToolCalls ==
  {[toolName |-> n, args |-> [city |-> c]] : n \in {"getWeatherInformation"}, c \in Cities}
  \cup {[toolName |-> n, args |-> [city |-> <<>>]] : n \in DOMAIN tools \ {"getWeatherInformation"}}

\* a tool is Immediate iff its descriptor carries an inline executor
Immediate(toolName) == tools[toolName].execute

\* the executor-table entry of a tool exists
HasExecution(toolName) == toolName \in DOMAIN executions

\* origin of an execution started by dispatch rather than by an approval
ByDispatch == 0

Dispatch(toolCall) ==
  /\ Len(dispatched) < MaxDispatch
  /\ dispatched' = Append(dispatched, toolCall.toolName)
  /\ IF Immediate(toolCall.toolName)
     THEN /\ executed' = Append(executed, [tool |-> toolCall.toolName,
                                           origin |-> ByDispatch])
          /\ UNCHANGED confirmations
     ELSE /\ confirmations' = Append(confirmations,
                                     [toolName |-> toolCall.toolName,
                                      args |-> toolCall.args,
                                      status |-> "pending"])
          /\ UNCHANGED executed
  /\ UNCHANGED <<attempts, resolver>>
  /\ UNCHANGED toolVars

\* a confirmation counted as resolved only once its executor has run
AlreadyResolved_afterExecution(pendingId) ==
  \E k \in DOMAIN executed : executed[k].origin = pendingId

\* the confirmation was resolved before
AlreadyResolved(pendingId) == confirmations[pendingId].status = "resolved"

\* resolve(pendingId, decision) up to the point where the executor is to run
ResolveBegin(r, pendingId, decision) ==
  /\ resolver[r].pc = "idle"
  /\ Len(attempts) < MaxResolve
  /\ pendingId \in DOMAIN confirmations
  /\ IF AlreadyResolved(pendingId)
     THEN /\ attempts' = Append(attempts, [id |-> pendingId, decision |-> decision,
                                           error |-> "AlreadyResolvedError"])
          /\ UNCHANGED <<confirmations, resolver>>
     ELSE /\ attempts' = Append(attempts, [id |-> pendingId, decision |-> decision,
                                           error |-> "none"])
          /\ confirmations' = [confirmations EXCEPT ![pendingId].status = "resolved"]
          /\ resolver' = IF decision = "Approve"
                         THEN [resolver EXCEPT ![r] = [pc |-> "invoke", id |-> pendingId]]
                         ELSE resolver
  /\ UNCHANGED <<executed, dispatched>>
  /\ UNCHANGED toolVars

\* the approved call runs the executor-table entry of the same name
ResolveInvoke(r) ==
  /\ resolver[r].pc = "invoke"
  /\ resolver' = [resolver EXCEPT ![r] = [pc |-> "idle", id |-> 0]]
  /\ executed' = IF HasExecution(confirmations[resolver[r].id].toolName)
                 THEN Append(executed, [tool |-> confirmations[resolver[r].id].toolName,
                                        origin |-> resolver[r].id])
                 ELSE executed
  /\ UNCHANGED <<confirmations, attempts, dispatched>>
  /\ UNCHANGED toolVars

GateNext ==
  \/ \E toolCall \in ToolCalls : Dispatch(toolCall)
  \/ \E r \in Resolvers, pendingId \in 1..MaxDispatch, decision \in Decisions :
        ResolveBegin(r, pendingId, decision)
  \/ \E r \in Resolvers : ResolveInvoke(r)

GateSpec == Init /\ [][GateNext]_vars

-----------------------------------------------------------------------------
(* Properties of the tools *)

\* occurrences of a character in a string
Count(s, ch) == Cardinality({i \in DOMAIN s : s[i] = ch})

\* the trigger value the resolver is to pass on for a recognized type
ExpectedTrigger(when) ==
  CASE when.type = "scheduled" -> when.date
    [] when.type = "delayed" -> when.delayInSeconds
    [] when.type = "cron" -> when.cron

\* C4: with an agent, a type among scheduled, delayed and cron, and a
\* scheduling call that does not fail, scheduleTask calls agent.schedule
\* exactly once with (trigger value, "executeTask", description) and returns
\* `Task scheduled for type "<type>" : <trigger value>`.
C4_ScheduledOnceWithTriggerValue ==
  (call.tool = "scheduleTask" /\ call.agent = "agent" /\ Recognized(call.when)
     /\ call.outcome = "ok")
  => /\ scheduleCalls =
          << <<ExpectedTrigger(call.when), "executeTask", call.description>> >>
     /\ pc = "returned"
     /\ result = <<"Task scheduled for type \"", call.when.type, "\" : ">>
                   \o TemplateString(ExpectedTrigger(call.when))

C4_Witness ==
  /\ call.tool = "scheduleTask"
  /\ call.agent = "agent"
  /\ call.when.type = "delayed"
  /\ call.when.delayInSeconds = TheDelay
  /\ call.outcome = "ok"
  /\ result = <<"Task scheduled for type \"", "delayed", "\" : ", "30">>

\* C5 as stated: every invocation with type no-schedule makes no scheduling
\* call and returns "Not a valid schedule input", whatever the agent context.
C5_NoScheduleAlwaysReturns ==
  (call.tool = "scheduleTask" /\ call.when.type = "no-schedule")
  => /\ scheduleCalls = <<>>
     /\ pc = "returned"
     /\ result = <<"Not a valid schedule input">>

\* C5 amended: with an active agent context, an invocation with type
\* no-schedule makes no scheduling call and returns "Not a valid schedule input".
C5_NoScheduleWithAgentReturns ==
  (call.tool = "scheduleTask" /\ call.when.type = "no-schedule" /\ call.agent = "agent")
  => /\ scheduleCalls = <<>>
     /\ promise = "none"
     /\ pc = "returned"
     /\ result = <<"Not a valid schedule input">>

C5_Witness ==
  /\ call.tool = "scheduleTask"
  /\ call.when.type = "no-schedule"
  /\ call.agent = "agent"
  /\ pc = "returned"

\* C6: a scheduling call that fails, at the call or later through its promise,
\* never escapes as an unhandled fault, and scheduleTask returns the string
\* describing the error, never the success string.
C6_SchedulingFailureReported ==
  (call.tool = "scheduleTask" /\ call.outcome \in {"throws", "rejects"})
  => /\ promise # "unhandled"
     /\ pc # "raised"
     /\ pc = "returned" =>
          /\ result = <<"Error scheduling task: ", ScheduleError>>
          /\ result[1] # "Task scheduled for type \""

\* C7: without an active agent context scheduleTask fails with the error
\* "No agent found" and makes no scheduling call, then or later.
C7_NoAgentFails ==
  (call.tool = "scheduleTask" /\ call.agent = "undefined")
  => /\ pc = "raised"
     /\ result = <<"Error: No agent found">>
     /\ scheduleCalls = <<>>
     /\ promise = "none"

C7_Witness ==
  /\ call.tool = "scheduleTask"
  /\ call.agent = "undefined"
  /\ call.when.type = "cron"
  /\ pc = "raised"

\* C8: a domain tool never raises, and returns exactly "error" when its GET
\* request fails.
C8_DomainToolsNeverRaise ==
  call.tool \in DomainTools
  => /\ pc # "raised"
     /\ (pc = "returned" /\ getOutcome = "rejected") => result = <<"error">>

\* C9: the path searchStudent requests has exactly one "?", carries the
\* encoded name as searchText, and carries a supplied schoolIds as a further
\* parameter joined with "&".
C9_SearchPathWellFormed ==
  (call.tool = "searchStudent" /\ pc # "raised")
  => LET base == <<"/students/typeahead", "?", "searchText=">>
                   \o encodeURIComponent(call.name)
     IN /\ Len(getCalls) = 1
        /\ Count(getCalls[1], "?") = 1
        /\ getCalls[1] = IF Truthy(call.schoolIds)
                         THEN base \o <<"&", "schoolIds=">> \o call.schoolIds
                         ELSE base

\* the query string that holds exactly the non-empty filters, schoolIds first
ExpectedStudentsQuery(schoolIds, classIds) ==
  (IF Truthy(schoolIds) \/ Truthy(classIds) THEN <<"?">> ELSE <<>>)
  \o (IF Truthy(schoolIds) THEN <<"schoolIds=">> \o schoolIds ELSE <<>>)
  \o (IF Truthy(schoolIds) /\ Truthy(classIds) THEN <<"&">> ELSE <<>>)
  \o (IF Truthy(classIds) THEN <<"classIds=">> \o classIds ELSE <<>>)

\* C10: getStudents issues exactly one GET, for "active-students" followed by
\* the query string of the non-empty filters supplied: no "?" when there is
\* none, one "?" otherwise, schoolIds before classIds, joined by "&".
C10_StudentsPath ==
  call.tool = "getStudents"
  => /\ Len(getCalls) = 1
     /\ getCalls[1] = <<"active-students">>
                        \o ExpectedStudentsQuery(call.schoolIds, call.classIds)
     /\ Count(getCalls[1], "?")
          = IF Truthy(call.schoolIds) \/ Truthy(call.classIds) THEN 1 ELSE 0
     /\ Count(getCalls[1], "&")
          = IF Truthy(call.schoolIds) /\ Truthy(call.classIds) THEN 1 ELSE 0

C10_Witness ==
  /\ call.tool = "getStudents"
  /\ call.schoolIds = <<"1", ",">>
  /\ call.classIds = <<"2">>
  /\ pc = "returned"
  /\ getCalls = << <<"active-students", "?", "schoolIds=", "1", ",", "&",
                     "classIds=", "2">> >>

-----------------------------------------------------------------------------
(* Properties of the registry and of the confirmation gate *)

\* executions whose origin is the given one
ExecutionsOf(origin) == {k \in DOMAIN executed : executed[k].origin = origin}

\* admitted decisions of the given kind on a pending confirmation
Admitted(pendingId, decision) ==
  {j \in DOMAIN attempts : /\ attempts[j].id = pendingId
                           /\ attempts[j].decision = decision
                           /\ attempts[j].error = "none"}

\* C1: a registered tool carries an inline execute iff executions has no
\* entry under its name, and every key of executions names a registered tool
\* without execute; so no call left pending lacks an implementation and no
\* call run at dispatch has one in executions.
C1_ExecuteXorExecution ==
  /\ \A n \in DOMAIN tools : tools[n].execute <=> n \notin DOMAIN executions
  /\ \A k \in DOMAIN executions : k \in DOMAIN tools /\ ~tools[k].execute
  /\ \A id \in DOMAIN confirmations :
        confirmations[id].toolName \in DOMAIN executions
  /\ \A k \in ExecutionsOf(ByDispatch) : executed[k].tool \notin DOMAIN executions

C1_Witness ==
  /\ \E k \in DOMAIN executed : executed[k].origin = ByDispatch
  /\ \E k \in DOMAIN executed :
        executed[k].tool = "getWeatherInformation" /\ executed[k].origin # ByDispatch

C3_ResolvedAtMostOnce ==
  /\ \A i \in DOMAIN attempts, j \in DOMAIN attempts :
        (i < j /\ attempts[i].id = attempts[j].id)
        => attempts[j].error = "AlreadyResolvedError"
  /\ \A id \in DOMAIN confirmations : Cardinality(ExecutionsOf(id)) <= 1

\* a second Approve arrives while the first has not yet run the executor
C3_Witness ==
  /\ Len(attempts) >= 2
  /\ attempts[1].id = attempts[2].id
  /\ attempts[1].decision = "Approve"
  /\ attempts[2].decision = "Approve"
  /\ attempts[2].error = "AlreadyResolvedError"
  /\ \E r \in Resolvers : resolver[r].pc = "invoke" /\ resolver[r].id = attempts[1].id
  /\ ExecutionsOf(attempts[1].id) = {}

====
